---- MODULE Spec2Model ----
(***************************************************************************)
(* The two training-loop controllers of maro.rl.training:                  *)
(*   LocalLearner (maro/rl/training/local_learner.py) and                  *)
(*   Learner      (maro/rl/training/sync_tools/learner.py).                *)
(* A behaviour is one construction of a learner followed by one run().     *)
(* The collaborators (environment wrapper, policies, exploration schemes,  *)
(* roll-out manager, policy manager, early stopper) are abstract: what     *)
(* they answer, and whether a call of them fails, is chosen                *)
(* nondeterministically.                                                   *)
(*                                                                         *)
(* Spec draws the schedule inputs widely and routes a single agent;        *)
(* SpecRouting draws the agent routing of LocalLearner widely (two agents, *)
(* shared and unregistered policies, exploration mappings, invalid         *)
(* num_steps) over a short run.                                            *)
(***************************************************************************)
EXTENDS Integers, Sequences, FiniteSets

\* ---------------------------------------------------------------- bounds
MaxEpisodes == 3
MaxListLen == 2
MaxNumSteps == 2
MaxEnvSteps == 3
MaxSegments == 2

\* float("inf"), the value of _num_steps when num_steps = -1: it is truthy
\* and inf - 1 = inf (see Decrement and Truthy).
Inf == -1

Variants == {"LocalLearner", "Learner"}
ExplorationDicts == {{}, {"explore_a", "explore_b"}}
EnvIds == {"env_0", "env_1"}
Agents == {"agent_0", "agent_1"}
PolicyIds == {"policy_0", "policy_1"}
Managers == {"rollout_manager", "policy_manager"}

VARIABLES
    variant,            \* which controller class is constructed
    num_episodes,       \* self.num_episodes
    arg_eval_schedule,  \* the eval_schedule argument of __init__
    arg_num_steps,      \* the num_steps argument of __init__ (LocalLearner)
    exploration_dict,   \* self.exploration_dict, as its set of keys
    early_stopper,      \* whether self.early_stopper is set
    policies,           \* names of the policies argument (keys of policy_dict)
    agent2policy,       \* the agent2policy argument: agent id -> policy id
    agent2exploration,  \* the agent2exploration argument: agent id -> scheme id
    eval_env_given,     \* whether an eval_env argument was supplied
    exit_hooks,         \* the managers of Learner that have an exit method
    eval_schedule,      \* self._eval_schedule
    eval_point_index,   \* self._eval_point_index
    num_steps,          \* self._num_steps
    pc,                 \* position of the control flow
    raised,             \* what ended the run with an error: the exception of
                        \* the core, or the collaborator call that failed
    ep,                 \* loop variable of run()
    segment,            \* local of _train
    steps_to_go,        \* local of _collect
    env_left,           \* env.step calls left before env.state is empty
    eval_left,          \* eval_env.step calls left before its state is empty
    env_agents,         \* keys of env.state
    eval_agents,        \* keys of eval_env.state
    last_step,          \* the latest step call: environment, keys of the
                        \* state the actions were chosen on, action map
    experiences,        \* keys of the latest get_experiences() result
    dispatched,         \* agent id -> policy whose on_experiences got its batch
    eval_calls,         \* calls made by the current _evaluate
    pending_metrics,    \* values of env_metric_dict not yet iterated
    pm_version,         \* policy_manager.version (names its state as well)
    policy_state_dict,  \* local of Learner._train
    policy_version,     \* local of Learner._train
    train_log,          \* manager calls of the current Learner._train
    exploration_steps,  \* per exploration scheme: number of step() calls
    n_evaluate,         \* number of evaluations started
    last_eval_ep,       \* episode of the latest evaluation, 0 if none
    events,             \* train(ep) completions and evaluate(ep) starts
    exits,              \* exit() calls made
    stopped,            \* early_stopper.stop() has returned True
    after_stop,         \* collaborator calls made after stop() returned True
    collect_r,          \* env_left at entry of the current _collect
    collect_steps,      \* env.step calls of the current _collect
    collect_harvests,   \* get_experiences calls of the current _collect
    episode_len         \* env.step calls that the training episode being run
                        \* allows before env.state is empty (0 outside _train)

vars == <<variant, num_episodes, arg_eval_schedule, arg_num_steps,
          exploration_dict, early_stopper, policies, agent2policy,
          agent2exploration, eval_env_given, exit_hooks, eval_schedule,
          eval_point_index, num_steps, pc, raised, ep, segment, steps_to_go,
          env_left, eval_left, env_agents, eval_agents, last_step,
          experiences, dispatched, eval_calls, pending_metrics, pm_version,
          policy_state_dict, policy_version, train_log, exploration_steps,
          n_evaluate, last_eval_ep, events, exits, stopped, after_stop,
          collect_r, collect_steps, collect_harvests, episode_len>>

\* ------------------------------------------------------- inputs of __init__
NoneArg == [type |-> "None", k |-> 0, list |-> <<>>]
IntArg(k) == [type |-> "int", k |-> k, list |-> <<>>]
ListArg(l) == [type |-> "list", k |-> 0, list |-> l]

EpisodeLists ==
    UNION {[1..n -> 1..(MaxEpisodes + 1)] : n \in 0..MaxListLen}

EvalScheduleArgs ==
    {NoneArg} \cup {IntArg(k) : k \in 1..(MaxEpisodes + 1)}
              \cup {ListArg(l) : l \in EpisodeLists}

NumStepsArgs == {-1} \cup 1..MaxNumSteps

\* num_steps values that __init__ rejects
BadNumStepsArgs == {-2, 0}

\* a dict without keys
EmptyMap == [a \in {} |-> ""]

\* agent2exploration arguments: none, one agent of two mapped, both mapped,
\* an agent mapped to an id that exploration_dict never holds
ExplorationMaps ==
    {EmptyMap,
     [a \in {"agent_0"} |-> "explore_a"],
     [a \in Agents |-> IF a = "agent_0" THEN "explore_a" ELSE "explore_b"],
     [a \in {"agent_1"} |-> "explore_z"]}

PolicySets == {{"policy_0"}, PolicyIds}

\* the managers that have an exit method: none of them, or both
ExitHookSets == {{}, Managers}
\* ------------------------------------------------------ the schedule code
\* IntervalSchedule with range(0, num_eval_schedule) for range(1, ... + 1)
IntervalSchedule_from_zero(n, k) ==
    LET num_eval_schedule == n \div k
    IN  [i \in 1..num_eval_schedule |-> k * (i - 1)]

\* [eval_schedule * i for i in range(1, num_eval_schedule + 1)]
\* with num_eval_schedule = num_episodes // eval_schedule
IntervalSchedule(n, k) ==
    LET num_eval_schedule == n \div k
    IN  [i \in 1..num_eval_schedule |-> k * i]

RECURSIVE Insert(_, _)
Insert(x, s) ==
    IF s = <<>> THEN <<x>>
    ELSE IF x < Head(s) THEN <<x>> \o s
    ELSE <<Head(s)>> \o Insert(x, Tail(s))

\* list.sort(): ascending, stable
RECURSIVE Sort(_)
Sort(s) ==
    IF s = <<>> THEN <<>>
    ELSE Insert(s[Len(s)], Sort(SubSeq(s, 1, Len(s) - 1)))

\* AppendFinal without its test: num_episodes is always appended
AppendFinal_always(s, n) == Append(s, n)

\* if not schedule or num_episodes != schedule[-1]: schedule.append(num_episodes)
AppendFinal(s, n) ==
    IF s = <<>> \/ n # s[Len(s)] THEN Append(s, n) ELSE s

\* LocalLearner_eval_schedule without the final append of num_episodes
LocalLearner_eval_schedule_unterminated(n, arg) ==
    LET sched == IF arg.type = "None" THEN <<>>
                 ELSE IF arg.type = "int" THEN IntervalSchedule(n, arg.k)
                 ELSE arg.list
    IN  Sort(sched)

\* LocalLearner.__init__, "evaluation schedule"
LocalLearner_eval_schedule(n, arg) ==
    LET sched == IF arg.type = "None" THEN <<>>
                 ELSE IF arg.type = "int" THEN IntervalSchedule(n, arg.k)
                 ELSE arg.list
    IN  AppendFinal(Sort(sched), n)

\* Learner.__init__, "evaluation schedule": sort and append only in the
\* list branch
Learner_eval_schedule(n, arg) ==
    IF arg.type = "None" THEN <<>>
    ELSE IF arg.type = "int" THEN IntervalSchedule(n, arg.k)
    ELSE AppendFinal(Sort(arg.list), n)

\* LocalLearner_num_steps with the argument ignored: no step budget
LocalLearner_num_steps_unlimited(n) == Inf

\* self._num_steps = num_steps if num_steps > 0 else float("inf")
LocalLearner_num_steps(n) == IF n > 0 THEN n ELSE Inf

\* Decrement left out: the step budget is never used up
Decrement_skipped(x) == x

\* steps_to_go -= 1
Decrement(x) == IF x = Inf THEN Inf ELSE x - 1

\* truth value of a number
Truthy(x) == x # 0

\* a call of a collaborator, recorded when it follows a True from stop()
Call(name) == IF stopped THEN after_stop \cup {name} ELSE after_stop

\* self._policy = {agent_id: self.policy_dict[policy_id] for ...}
LocalLearner_policy == [a \in DOMAIN agent2policy |-> agent2policy[a]]

\* self._exploration = {agent_id: self.exploration_dict[exploration_id] for ...},
\* built only "if exploration_dict"
LocalLearner_exploration ==
    IF exploration_dict # {} THEN agent2exploration ELSE EmptyMap

\* LocalLearner_collect_action with the action dict of _evaluate: no
\* exploration scheme is applied during training
LocalLearner_collect_action_raw(state) ==
    [a \in state |->
        [policy |-> LocalLearner_policy[a], choose_calls |-> 1,
         exploration |-> "none"]]

\* _collect: the action dict of one training step. Each entry: the policy
\* whose choose_action was called, the number of choose_action calls made for
\* the agent, and the exploration scheme applied to the result ("none": raw)
LocalLearner_collect_action(state) ==
    IF exploration_dict # {}
    THEN [a \in state |->
            IF a \in DOMAIN LocalLearner_exploration
            THEN [policy |-> LocalLearner_policy[a], choose_calls |-> 1,
                  exploration |-> LocalLearner_exploration[a]]
            ELSE [policy |-> LocalLearner_policy[a], choose_calls |-> 1,
                  exploration |-> "none"]]
    ELSE [a \in state |->
            [policy |-> LocalLearner_policy[a], choose_calls |-> 1,
             exploration |-> "none"]]

\* _evaluate: the action dict of one evaluation step
LocalLearner_evaluate_action(state) ==
    [a \in state |->
        [policy |-> LocalLearner_policy[a], choose_calls |-> 1,
         exploration |-> "none"]]

\* _train: for agent_id, exp in experiences.items():
\*             self._policy[agent_id].on_experiences(exp)
LocalLearner_dispatch(exp_keys) == [a \in exp_keys |-> LocalLearner_policy[a]]

\* no step call made yet (or the locals of the call are gone)
NoStep == [env |-> "none", state |-> {}, action |-> EmptyMap]

\* one entry of train_log
ManagerCall(call, e, seg, state, version) ==
    [call |-> call, ep |-> e, segment |-> seg, state |-> state,
     version |-> version]

\* the keys of a non-empty environment state
AgentSets == (SUBSET DOMAIN agent2policy) \ {{}}

\* ------------------------------------------------------------------- Init
\* what no input decides
InitRest ==
    /\ eval_schedule = <<>>
    /\ eval_point_index = 0
    /\ num_steps = 0
    /\ pc = "new"
    /\ raised = "none"
    /\ ep = 0
    /\ segment = 0
    /\ steps_to_go = 0
    /\ env_left = 0
    /\ eval_left = 0
    /\ env_agents = {}
    /\ eval_agents = {}
    /\ last_step = NoStep
    /\ experiences = {}
    /\ dispatched = EmptyMap
    /\ eval_calls = {}
    /\ pending_metrics = {}
    /\ pm_version = 0
    /\ policy_state_dict = 0
    /\ policy_version = 0
    /\ train_log = <<>>
    /\ exploration_steps = [x \in exploration_dict |-> 0]
    /\ n_evaluate = 0
    /\ last_eval_ep = 0
    /\ events = <<>>
    /\ exits = {}
    /\ stopped = FALSE
    /\ after_stop = {}
    /\ collect_r = 0
    /\ collect_steps = 0
    /\ collect_harvests = 0
    /\ episode_len = 0

Init ==
    /\ variant \in Variants
    /\ num_episodes \in 1..MaxEpisodes
    /\ arg_eval_schedule \in EvalScheduleArgs
    /\ arg_num_steps \in (IF variant = "LocalLearner" THEN NumStepsArgs ELSE {-1})
    /\ exploration_dict \in (IF variant = "LocalLearner" THEN ExplorationDicts ELSE {{}})
    /\ early_stopper \in BOOLEAN
    /\ policies = {"policy_0"}
    /\ agent2policy = [a \in {"agent_0"} |-> "policy_0"]
    /\ agent2exploration = (IF exploration_dict # {}
                            THEN [a \in {"agent_0"} |-> "explore_a"]
                            ELSE EmptyMap)
    /\ eval_env_given = TRUE
    /\ exit_hooks \in (IF variant = "Learner" THEN ExitHookSets ELSE {{}})
    /\ InitRest

\* LocalLearner with every routing, over one episode evaluated at its end
InitRouting ==
    /\ variant = "LocalLearner"
    /\ num_episodes = 1
    /\ arg_eval_schedule = NoneArg
    /\ arg_num_steps \in NumStepsArgs \cup BadNumStepsArgs
    /\ exploration_dict \in ExplorationDicts
    /\ early_stopper \in BOOLEAN
    /\ policies \in PolicySets
    /\ agent2policy \in [Agents -> PolicyIds]
    /\ agent2exploration \in ExplorationMaps
    /\ eval_env_given \in BOOLEAN
    /\ exit_hooks = {}
    /\ InitRest

inputs == <<variant, num_episodes, arg_eval_schedule, arg_num_steps,
            exploration_dict, early_stopper, policies, agent2policy,
            agent2exploration, eval_env_given, exit_hooks>>
fields == <<eval_schedule, num_steps>>
collect_hist == <<collect_r, collect_steps, collect_harvests, episode_len>>
eval_hist == <<n_evaluate, last_eval_ep>>
stop_hist == <<stopped, after_stop>>
env_obs == <<env_agents, eval_agents, last_step>>
seg_obs == <<experiences, dispatched>>
manager == <<pm_version, policy_state_dict, policy_version, train_log>>

learner_only == <<pending_metrics, manager, exits>>
local_only == <<steps_to_go, env_left, eval_left, env_obs, seg_obs,
                eval_calls, exploration_steps, collect_hist>>

\* an exception caught and the failed statement run again
Propagate_retried(what) ==
    /\ raised' = what
    /\ pc' = pc

\* an exception, raised by the core or by a collaborator call, is caught
\* nowhere: it ends __init__ or run()
Propagate(what) ==
    /\ raised' = what
    /\ pc' = "error"

\* the environment the evaluation runs on:
\* self.eval_env = eval_env if eval_env else self.env
EvalEnv == IF eval_env_given THEN "eval_env" ELSE "env"
EvalEnvLeft == IF eval_env_given THEN eval_left ELSE env_left
EvalEnvAgents == IF eval_env_given THEN eval_agents ELSE env_agents

\* ----------------------------------------------------------- construction
LocalLearner_init ==
    /\ pc = "new"
    /\ variant = "LocalLearner"
    /\ IF arg_num_steps = 0 \/ arg_num_steps < -1
       THEN /\ Propagate("ValueError")
            /\ UNCHANGED <<fields, eval_point_index>>
       ELSE IF \E a \in DOMAIN agent2policy : agent2policy[a] \notin policies
       THEN /\ Propagate("KeyError")
            /\ UNCHANGED <<fields, eval_point_index>>
       ELSE IF /\ exploration_dict # {}
               /\ \E a \in DOMAIN agent2exploration :
                     agent2exploration[a] \notin exploration_dict
       THEN /\ Propagate("KeyError")
            /\ UNCHANGED <<fields, eval_point_index>>
       ELSE /\ num_steps' = LocalLearner_num_steps(arg_num_steps)
            /\ eval_schedule' =
                  LocalLearner_eval_schedule(num_episodes, arg_eval_schedule)
            /\ eval_point_index' = 0
            /\ pc' = "constructed"
            /\ UNCHANGED raised
    /\ UNCHANGED <<inputs, ep, segment, steps_to_go, env_left, eval_left,
                   env_obs, seg_obs, eval_calls, exploration_steps, eval_hist,
                   events, stop_hist, collect_hist, learner_only>>

Learner_init ==
    /\ pc = "new"
    /\ variant = "Learner"
    /\ eval_schedule' = Learner_eval_schedule(num_episodes, arg_eval_schedule)
    /\ eval_point_index' = 0
    /\ pc' = "constructed"
    /\ UNCHANGED <<inputs, num_steps, raised, ep, segment, eval_hist, events,
                   stop_hist, learner_only, local_only>>

\* --------------------------------------------------------- LocalLearner.run
\* run() is entered: the for loop has not produced an episode yet
LocalLearner_run ==
    /\ pc = "constructed"
    /\ variant = "LocalLearner"
    /\ ep' = 0
    /\ pc' = "for_ep"
    /\ UNCHANGED <<inputs, fields, eval_point_index, raised, segment,
                   eval_hist, events, stop_hist, learner_only, local_only>>

\* for ep in range(1, self.num_episodes + 1): self._train(ep)
LocalLearner_run_for ==
    /\ pc = "for_ep"
    /\ variant = "LocalLearner"
    /\ IF ep < num_episodes
       THEN /\ ep' = ep + 1
            /\ pc' = "train"
            /\ after_stop' = Call("train")
       ELSE /\ pc' = "done"
            /\ UNCHANGED <<ep, after_stop>>
    /\ UNCHANGED <<inputs, fields, eval_point_index, raised, segment,
                   eval_hist, events, stopped, learner_only, local_only>>

\* _train: self.env.reset(); self.env.start(); segment = 0
LocalLearner_train ==
    /\ pc = "train"
    /\ variant = "LocalLearner"
    /\ \E n \in 0..MaxEnvSteps :
          /\ env_left' = n
          /\ episode_len' = n
          /\ env_agents' \in (IF n > 0 THEN AgentSets ELSE {{}})
    /\ segment' = 0
    /\ pc' = "while_state"
    /\ UNCHANGED <<inputs, fields, eval_point_index, raised, ep, steps_to_go,
                   eval_left, eval_agents, last_step, seg_obs, eval_calls,
                   exploration_steps, eval_hist, events, stop_hist,
                   collect_r, collect_steps, collect_harvests, learner_only>>

\* _train: while self.env.state: segment += 1; self._collect(ep, segment)
\* _collect: steps_to_go = self._num_steps
LocalLearner_train_while ==
    /\ pc = "while_state"
    /\ variant = "LocalLearner"
    /\ IF env_left > 0
       THEN /\ segment' = segment + 1
            /\ steps_to_go' = num_steps
            /\ collect_r' = env_left
            /\ collect_steps' = 0
            /\ collect_harvests' = 0
            /\ after_stop' = Call("collect")
            /\ pc' = "collect"
            /\ UNCHANGED episode_len
       ELSE /\ pc' = "exploration_step"
            /\ UNCHANGED <<segment, steps_to_go, collect_hist, after_stop>>
    /\ experiences' = {}
    /\ dispatched' = EmptyMap
    /\ UNCHANGED <<inputs, fields, eval_point_index, raised, ep, env_left,
                   eval_left, env_obs, eval_calls, exploration_steps,
                   eval_hist, events, stopped, learner_only>>

\* _collect: while self.env.state and steps_to_go:
\*               action = {...}; self.env.step(action); steps_to_go -= 1
\* env.step may raise
LocalLearner_collect_step ==
    /\ pc = "collect"
    /\ env_left > 0 /\ Truthy(steps_to_go)
    /\ \E fails \in BOOLEAN :
          IF fails
          THEN /\ Propagate("env.step")
               /\ UNCHANGED <<steps_to_go, env_left, env_agents, last_step,
                              collect_steps, after_stop>>
          ELSE /\ last_step' = [env |-> "env", state |-> env_agents,
                                action |-> LocalLearner_collect_action(env_agents)]
               /\ env_left' = env_left - 1
               /\ env_agents' \in (IF env_left' > 0 THEN AgentSets ELSE {{}})
               /\ steps_to_go' = Decrement(steps_to_go)
               /\ collect_steps' = collect_steps + 1
               /\ after_stop' = Call("env.step")
               /\ UNCHANGED <<pc, raised>>
    /\ UNCHANGED <<inputs, fields, eval_point_index, ep, segment, eval_left,
                   eval_agents, seg_obs, eval_calls, exploration_steps,
                   eval_hist, events, stopped, collect_r, collect_harvests,
                   episode_len, learner_only>>

\* _collect: the loop is left; return self.env.get_experiences()
LocalLearner_collect_return ==
    /\ pc = "collect"
    /\ ~(env_left > 0 /\ Truthy(steps_to_go))
    /\ collect_harvests' = collect_harvests + 1
    /\ experiences' \in SUBSET DOMAIN agent2policy
    /\ steps_to_go' = 0
    /\ last_step' = NoStep
    /\ pc' = "on_experiences"
    /\ UNCHANGED <<inputs, fields, eval_point_index, raised, ep, segment,
                   env_left, eval_left, env_agents, eval_agents, dispatched,
                   eval_calls, exploration_steps, eval_hist, events,
                   stop_hist, collect_r, collect_steps, episode_len,
                   learner_only>>

\* LocalLearner_train_on_experiences with exploration.step() inside the
\* segment loop
LocalLearner_train_on_experiences_stepping ==
    /\ pc = "on_experiences"
    /\ variant = "LocalLearner"
    /\ after_stop' = Call("on_experiences")
    /\ dispatched' = LocalLearner_dispatch(experiences)
    /\ exploration_steps' = [x \in exploration_dict |-> exploration_steps[x] + 1]
    /\ collect_r' = 0
    /\ collect_steps' = 0
    /\ collect_harvests' = 0
    /\ pc' = "while_state"
    /\ UNCHANGED episode_len
    /\ UNCHANGED <<inputs, fields, eval_point_index, raised, ep, segment,
                   steps_to_go, env_left, eval_left, env_obs, experiences,
                   eval_calls, eval_hist, events, stopped, learner_only>>

\* _train: for agent_id, exp in ...: self._policy[agent_id].on_experiences(exp)
LocalLearner_train_on_experiences ==
    /\ pc = "on_experiences"
    /\ variant = "LocalLearner"
    /\ after_stop' = Call("on_experiences")
    /\ dispatched' = LocalLearner_dispatch(experiences)
    /\ collect_r' = 0
    /\ collect_steps' = 0
    /\ collect_harvests' = 0
    /\ pc' = "while_state"
    /\ UNCHANGED episode_len
    /\ UNCHANGED <<inputs, fields, eval_point_index, raised, ep, segment,
                   steps_to_go, env_left, eval_left, env_obs, experiences,
                   eval_calls, exploration_steps, eval_hist, events, stopped,
                   learner_only>>

\* _train: if self.exploration_dict:
\*             for exploration in self.exploration_dict.values():
\*                 exploration.step()
\* and _train returns
LocalLearner_train_exploration_step ==
    /\ pc = "exploration_step"
    /\ exploration_steps' = [x \in exploration_dict |-> exploration_steps[x] + 1]
    /\ segment' = 0
    /\ episode_len' = 0
    /\ events' = Append(events, [type |-> "train", ep |-> ep])
    /\ pc' = "check_schedule"
    /\ UNCHANGED <<inputs, fields, eval_point_index, raised, ep, steps_to_go,
                   env_left, eval_left, env_obs, seg_obs, eval_calls,
                   eval_hist, stop_hist, collect_r, collect_steps,
                   collect_harvests, learner_only>>

\* LocalLearner_run_check without "self._eval_point_index += 1"
LocalLearner_run_check_cursor_kept ==
    /\ pc = "check_schedule"
    /\ variant = "LocalLearner"
    /\ IF eval_point_index >= Len(eval_schedule)
       THEN /\ Propagate("IndexError")
            /\ UNCHANGED <<eval_point_index, after_stop>>
       ELSE IF ep = eval_schedule[eval_point_index + 1]
       THEN /\ after_stop' = Call("evaluate")
            /\ pc' = "evaluate"
            /\ UNCHANGED <<eval_point_index, raised>>
       ELSE /\ pc' = "for_ep"
            /\ UNCHANGED <<eval_point_index, raised, after_stop>>
    /\ UNCHANGED <<inputs, fields, ep, segment, eval_hist, events, stopped,
                   learner_only, local_only>>

\* run: if ep == self._eval_schedule[self._eval_point_index]:
\*          self._eval_point_index += 1; self._evaluate()
\* (Python indexes from 0, the sequence from 1)
LocalLearner_run_check ==
    /\ pc = "check_schedule"
    /\ variant = "LocalLearner"
    /\ IF eval_point_index >= Len(eval_schedule)
       THEN /\ Propagate("IndexError")
            /\ UNCHANGED <<eval_point_index, after_stop>>
       ELSE IF ep = eval_schedule[eval_point_index + 1]
       THEN /\ eval_point_index' = eval_point_index + 1
            /\ after_stop' = Call("evaluate")
            /\ pc' = "evaluate"
            /\ UNCHANGED raised
       ELSE /\ pc' = "for_ep"
            /\ UNCHANGED <<eval_point_index, raised, after_stop>>
    /\ UNCHANGED <<inputs, fields, ep, segment, eval_hist, events, stopped,
                   learner_only, local_only>>

\* _evaluate: self._eval_ep += 1; self.eval_env.reset(); self.eval_env.start()
LocalLearner_evaluate ==
    /\ pc = "evaluate"
    /\ variant = "LocalLearner"
    /\ n_evaluate' = n_evaluate + 1
    /\ last_eval_ep' = ep
    /\ events' = Append(events, [type |-> "evaluate", ep |-> ep])
    /\ eval_calls' = {"eval_env.reset", "eval_env.start"}
    /\ \E n \in 0..MaxEnvSteps :
       \E ag \in (IF n > 0 THEN AgentSets ELSE {{}}) :
          IF eval_env_given
          THEN /\ eval_left' = n
               /\ eval_agents' = ag
               /\ UNCHANGED <<env_left, env_agents>>
          ELSE /\ env_left' = n
               /\ env_agents' = ag
               /\ UNCHANGED <<eval_left, eval_agents>>
    /\ pc' = "eval_while"
    /\ UNCHANGED <<inputs, fields, eval_point_index, raised, ep, segment,
                   steps_to_go, last_step, seg_obs, exploration_steps,
                   stop_hist, collect_hist, learner_only>>

\* LocalLearner_evaluate_step with the action dict of _collect: the
\* exploration schemes are applied during evaluation
LocalLearner_evaluate_step_exploring ==
    /\ pc = "eval_while"
    /\ EvalEnvLeft > 0
    /\ last_step' = [env |-> EvalEnv, state |-> EvalEnvAgents,
                     action |-> LocalLearner_collect_action(EvalEnvAgents)]
    /\ eval_calls' = eval_calls \cup {"choose_action", "eval_env.step"}
                        \cup (IF \E a \in EvalEnvAgents :
                                    last_step'.action[a].exploration # "none"
                              THEN {"exploration"} ELSE {})
    /\ \E ag \in (IF EvalEnvLeft > 1 THEN AgentSets ELSE {{}}) :
          IF eval_env_given
          THEN /\ eval_left' = eval_left - 1
               /\ eval_agents' = ag
               /\ UNCHANGED <<env_left, env_agents>>
          ELSE /\ env_left' = env_left - 1
               /\ env_agents' = ag
               /\ UNCHANGED <<eval_left, eval_agents>>
    /\ UNCHANGED <<inputs, fields, eval_point_index, pc, raised, ep, segment,
                   steps_to_go, seg_obs, exploration_steps, eval_hist, events,
                   stop_hist, collect_hist, learner_only>>

\* _evaluate: while self.eval_env.state:
\*                action = {...choose_action(st)...}; self.eval_env.step(action)
\* eval_env.step may raise
LocalLearner_evaluate_step ==
    /\ pc = "eval_while"
    /\ EvalEnvLeft > 0
    /\ \E fails \in BOOLEAN :
          IF fails
          THEN /\ Propagate("eval_env.step")
               /\ UNCHANGED <<env_left, eval_left, env_obs, eval_calls>>
          ELSE /\ last_step' = [env |-> EvalEnv, state |-> EvalEnvAgents,
                                action |-> LocalLearner_evaluate_action(EvalEnvAgents)]
               /\ eval_calls' = eval_calls \cup {"choose_action", "eval_env.step"}
               /\ \E ag \in (IF EvalEnvLeft > 1 THEN AgentSets ELSE {{}}) :
                     IF eval_env_given
                     THEN /\ eval_left' = eval_left - 1
                          /\ eval_agents' = ag
                          /\ UNCHANGED <<env_left, env_agents>>
                     ELSE /\ env_left' = env_left - 1
                          /\ env_agents' = ag
                          /\ UNCHANGED <<eval_left, eval_agents>>
               /\ UNCHANGED <<pc, raised>>
    /\ UNCHANGED <<inputs, fields, eval_point_index, ep, segment,
                   steps_to_go, seg_obs, exploration_steps, eval_hist, events,
                   stop_hist, collect_hist, learner_only>>

\* _evaluate returns; run: if self.early_stopper:
\*                             self.early_stopper.push(self.eval_env.summary)
LocalLearner_run_push ==
    /\ pc = "eval_while"
    /\ EvalEnvLeft = 0
    /\ eval_calls' = {}
    /\ last_step' = NoStep
    /\ IF early_stopper
       THEN /\ after_stop' = Call("push")
            /\ pc' = "stop"
       ELSE /\ pc' = "for_ep"
            /\ UNCHANGED after_stop
    /\ UNCHANGED <<inputs, fields, eval_point_index, raised, ep, segment,
                   steps_to_go, env_left, eval_left, env_agents, eval_agents,
                   seg_obs, exploration_steps, eval_hist, events, stopped,
                   collect_hist, learner_only>>

\* LocalLearner_run_stop without the return: the loop goes on after True
LocalLearner_run_stop_ignored ==
    /\ pc = "stop"
    /\ variant = "LocalLearner"
    /\ \E answer \in BOOLEAN : stopped' = (stopped \/ answer)
    /\ pc' = "for_ep"
    /\ UNCHANGED <<inputs, fields, eval_point_index, raised, ep, segment,
                   eval_hist, events, after_stop, learner_only, local_only>>

\* run: if self.early_stopper.stop(): return
LocalLearner_run_stop ==
    /\ pc = "stop"
    /\ variant = "LocalLearner"
    /\ \E answer \in BOOLEAN :
          IF answer
          THEN /\ stopped' = TRUE
               /\ pc' = "done"
          ELSE /\ pc' = "for_ep"
               /\ UNCHANGED stopped
    /\ UNCHANGED <<inputs, fields, eval_point_index, raised, ep, segment,
                   eval_hist, events, after_stop, learner_only, local_only>>

\* --------------------------------------------------------------- Learner.run
Learner_run ==
    /\ pc = "constructed"
    /\ variant = "Learner"
    /\ ep' = 0
    /\ pc' = "for_ep"
    /\ UNCHANGED <<inputs, fields, eval_point_index, raised, segment,
                   eval_hist, events, stop_hist, learner_only, local_only>>

\* for ep in range(1, self.num_episodes + 1): self._train(ep)
\* after the loop: the exit hooks
Learner_run_for ==
    /\ pc = "for_ep"
    /\ variant = "Learner"
    /\ IF ep < num_episodes
       THEN /\ ep' = ep + 1
            /\ pc' = "train"
            /\ after_stop' = Call("train")
       ELSE /\ pc' = "exit"
            /\ UNCHANGED <<ep, after_stop>>
    /\ UNCHANGED <<inputs, fields, eval_point_index, raised, segment,
                   eval_hist, events, stopped, learner_only, local_only>>

\* _train: segment = 0; self.rollout_manager.reset()
Learner_train ==
    /\ pc = "train"
    /\ variant = "Learner"
    /\ segment' = 0
    /\ train_log' = <<ManagerCall("reset", ep, 0, 0, 0)>>
    /\ pc' = "while_not_complete"
    /\ UNCHANGED <<inputs, fields, eval_point_index, raised, ep, eval_hist,
                   events, stop_hist, pending_metrics, pm_version,
                   policy_state_dict, policy_version, exits, local_only>>

\* _train: while not self.rollout_manager.episode_complete: segment += 1
\* what episode_complete answers is the roll-out manager's choice
Learner_train_while ==
    /\ pc = "while_not_complete"
    /\ \E episode_complete \in BOOLEAN :
          /\ segment >= MaxSegments => episode_complete
          /\ IF ~episode_complete
             THEN /\ segment' = segment + 1
                  /\ pc' = "get_state"
             ELSE /\ pc' = "end_of_episode"
                  /\ UNCHANGED segment
    /\ UNCHANGED <<inputs, fields, eval_point_index, raised, ep, eval_hist,
                   events, stop_hist, learner_only, local_only>>

\* Learner_train_get_state with the snapshot kept from the first segment of
\* the episode
Learner_train_get_state_once ==
    /\ pc = "get_state"
    /\ policy_state_dict' = (IF segment = 1 THEN pm_version ELSE policy_state_dict)
    /\ train_log' = Append(train_log,
                           ManagerCall("get_state", ep, segment, pm_version, 0))
    /\ pc' = "reset_update_status"
    /\ UNCHANGED <<inputs, fields, eval_point_index, raised, ep, segment,
                   eval_hist, events, stop_hist, pending_metrics, pm_version,
                   policy_version, exits, local_only>>

\* _train: policy_state_dict = self.policy_manager.get_state()
Learner_train_get_state ==
    /\ pc = "get_state"
    /\ policy_state_dict' = pm_version
    /\ train_log' = Append(train_log,
                           ManagerCall("get_state", ep, segment, pm_version, 0))
    /\ pc' = "reset_update_status"
    /\ UNCHANGED <<inputs, fields, eval_point_index, raised, ep, segment,
                   eval_hist, events, stop_hist, pending_metrics, pm_version,
                   policy_version, exits, local_only>>

\* _train: self.policy_manager.reset_update_status()
Learner_train_reset_update_status ==
    /\ pc = "reset_update_status"
    /\ train_log' = Append(train_log,
                           ManagerCall("reset_update_status", ep, segment, 0, 0))
    /\ pc' = "version"
    /\ UNCHANGED <<inputs, fields, eval_point_index, raised, ep, segment,
                   eval_hist, events, stop_hist, pending_metrics, pm_version,
                   policy_state_dict, policy_version, exits, local_only>>

\* _train: policy_version = self.policy_manager.version
Learner_train_version ==
    /\ pc = "version"
    /\ policy_version' = pm_version
    /\ train_log' = Append(train_log,
                           ManagerCall("version", ep, segment, 0, pm_version))
    /\ pc' = "rollout_collect"
    /\ UNCHANGED <<inputs, fields, eval_point_index, raised, ep, segment,
                   eval_hist, events, stop_hist, pending_metrics, pm_version,
                   policy_state_dict, exits, local_only>>

\* _train: exp_by_policy = self.rollout_manager.collect(
\*             ep, segment, policy_state_dict, policy_version)
\* the call may fail
Learner_train_collect ==
    /\ pc = "rollout_collect"
    /\ after_stop' = Call("collect")
    /\ train_log' = Append(train_log,
                           ManagerCall("collect", ep, segment,
                                       policy_state_dict, policy_version))
    /\ \E fails \in BOOLEAN :
          IF fails
          THEN Propagate("collect")
          ELSE /\ pc' = "manager_on_experiences"
               /\ UNCHANGED raised
    /\ UNCHANGED <<inputs, fields, eval_point_index, ep, segment, eval_hist,
                   events, stopped, pending_metrics, pm_version,
                   policy_state_dict, policy_version, exits, local_only>>

\* _train: self.policy_manager.on_experiences(exp_by_policy)
\* the call may fail; an update may publish a new version
Learner_train_on_experiences ==
    /\ pc = "manager_on_experiences"
    /\ after_stop' = Call("on_experiences")
    /\ train_log' = Append(train_log,
                           ManagerCall("on_experiences", ep, segment, 0, 0))
    /\ \E fails \in BOOLEAN :
          IF fails
          THEN /\ Propagate("on_experiences")
               /\ UNCHANGED pm_version
          ELSE /\ pm_version' \in {pm_version, pm_version + 1}
               /\ pc' = "while_not_complete"
               /\ UNCHANGED raised
    /\ UNCHANGED <<inputs, fields, eval_point_index, ep, segment, eval_hist,
                   events, stopped, pending_metrics, policy_state_dict,
                   policy_version, exits, local_only>>

\* _train: self.end_of_episode(ep, **self._end_of_episode_kwargs)
\* and _train returns
Learner_end_of_episode ==
    /\ pc = "end_of_episode"
    /\ segment' = 0
    /\ train_log' = Append(train_log, ManagerCall("end_of_episode", ep, 0, 0, 0))
    /\ events' = Append(events, [type |-> "train", ep |-> ep])
    /\ pc' = "check_schedule"
    /\ UNCHANGED <<inputs, fields, eval_point_index, raised, ep, eval_hist,
                   stop_hist, pending_metrics, pm_version, policy_state_dict,
                   policy_version, exits, local_only>>

\* run: if ep == self._eval_schedule[self._eval_point_index]:
\*          self._eval_point_index += 1
\* (the locals of the _train that returned are gone)
Learner_run_check ==
    /\ pc = "check_schedule"
    /\ variant = "Learner"
    /\ IF eval_point_index >= Len(eval_schedule)
       THEN /\ Propagate("IndexError")
            /\ UNCHANGED eval_point_index
       ELSE IF ep = eval_schedule[eval_point_index + 1]
       THEN /\ eval_point_index' = eval_point_index + 1
            /\ pc' = "evaluate"
            /\ UNCHANGED raised
       ELSE /\ pc' = "for_ep"
            /\ UNCHANGED <<eval_point_index, raised>>
    /\ train_log' = <<>>
    /\ policy_state_dict' = 0
    /\ policy_version' = 0
    /\ UNCHANGED <<inputs, fields, ep, segment, eval_hist, events, stop_hist,
                   pending_metrics, pm_version, exits, local_only>>

\* run: env_metric_dict = self.rollout_manager.evaluate(ep, get_state())
\*      if self.early_stopper: for env_metric in env_metric_dict.values()
\* the call may fail
Learner_run_evaluate ==
    /\ pc = "evaluate"
    /\ variant = "Learner"
    /\ n_evaluate' = n_evaluate + 1
    /\ last_eval_ep' = ep
    /\ events' = Append(events, [type |-> "evaluate", ep |-> ep])
    /\ after_stop' = Call("evaluate")
    /\ \E fails \in BOOLEAN :
          IF fails
          THEN /\ Propagate("evaluate")
               /\ UNCHANGED pending_metrics
          ELSE /\ IF early_stopper
                  THEN /\ pending_metrics' \in SUBSET EnvIds
                       /\ pc' = "for_env_metric"
                  ELSE /\ pc' = "for_ep"
                       /\ UNCHANGED pending_metrics
               /\ UNCHANGED raised
    /\ UNCHANGED <<inputs, fields, eval_point_index, ep, segment, stopped,
                   manager, exits, local_only>>

\* run: for env_metric in env_metric_dict.values():
\*          self.early_stopper.push(env_metric)
Learner_run_push ==
    /\ pc = "for_env_metric"
    /\ IF pending_metrics = {}
       THEN /\ pc' = "for_ep"
            /\ UNCHANGED <<pending_metrics, after_stop>>
       ELSE /\ \E m \in pending_metrics : pending_metrics' = pending_metrics \ {m}
            /\ after_stop' = Call("push")
            /\ pc' = "stop"
    /\ UNCHANGED <<inputs, fields, eval_point_index, raised, ep, segment,
                   eval_hist, events, stopped, manager, exits, local_only>>

\* Learner_run_stop with the return deferred to the end of the metric loop
Learner_run_stop_deferred ==
    /\ pc = "stop"
    /\ variant = "Learner"
    /\ \E answer \in BOOLEAN : stopped' = (stopped \/ answer)
    /\ pc' = IF stopped' /\ pending_metrics = {} THEN "done" ELSE "for_env_metric"
    /\ UNCHANGED <<inputs, fields, eval_point_index, raised, ep, segment,
                   eval_hist, events, after_stop, learner_only, local_only>>

\* run: if self.early_stopper.stop(): return
Learner_run_stop ==
    /\ pc = "stop"
    /\ variant = "Learner"
    /\ \E answer \in BOOLEAN :
          IF answer
          THEN /\ stopped' = TRUE
               /\ pc' = "done"
          ELSE /\ pc' = "for_env_metric"
               /\ UNCHANGED stopped
    /\ UNCHANGED <<inputs, fields, eval_point_index, raised, ep, segment,
                   eval_hist, events, after_stop, learner_only, local_only>>

\* run: if hasattr(self.rollout_manager, "exit"): self.rollout_manager.exit()
\*      if hasattr(self.policy_manager, "exit"): self.policy_manager.exit()
Learner_run_exit ==
    /\ pc = "exit"
    /\ exits' = {m \in Managers : m \in exit_hooks}
    /\ pc' = "done"
    /\ UNCHANGED <<inputs, fields, eval_point_index, raised, ep, segment,
                   eval_hist, events, stop_hist, pending_metrics, manager,
                   local_only>>

\* ------------------------------------------------------------ specification
NextLocal ==
    \/ LocalLearner_init
    \/ LocalLearner_run
    \/ LocalLearner_run_for
    \/ LocalLearner_train
    \/ LocalLearner_train_while
    \/ LocalLearner_collect_step
    \/ LocalLearner_collect_return
    \/ LocalLearner_train_on_experiences
    \/ LocalLearner_train_exploration_step
    \/ LocalLearner_run_check
    \/ LocalLearner_evaluate
    \/ LocalLearner_evaluate_step
    \/ LocalLearner_run_push
    \/ LocalLearner_run_stop

Next ==
    \/ LocalLearner_init
    \/ Learner_init
    \/ LocalLearner_run
    \/ LocalLearner_run_for
    \/ LocalLearner_train
    \/ LocalLearner_train_while
    \/ LocalLearner_collect_step
    \/ LocalLearner_collect_return
    \/ LocalLearner_train_on_experiences
    \/ LocalLearner_train_exploration_step
    \/ LocalLearner_run_check
    \/ LocalLearner_evaluate
    \/ LocalLearner_evaluate_step
    \/ LocalLearner_run_push
    \/ LocalLearner_run_stop
    \/ Learner_run
    \/ Learner_run_for
    \/ Learner_train
    \/ Learner_train_while
    \/ Learner_train_get_state
    \/ Learner_train_reset_update_status
    \/ Learner_train_version
    \/ Learner_train_collect
    \/ Learner_train_on_experiences
    \/ Learner_end_of_episode
    \/ Learner_run_check
    \/ Learner_run_evaluate
    \/ Learner_run_push
    \/ Learner_run_stop
    \/ Learner_run_exit

Spec == Init /\ [][Next]_vars

SpecRouting == InitRouting /\ [][NextLocal]_vars

\* ======================================================== checked properties
Range(s) == {s[i] : i \in 1..Len(s)}
Last(s) == s[Len(s)]
Front(s) == SubSeq(s, 1, Len(s) - 1)
Count(v, s) == Cardinality({i \in 1..Len(s) : s[i] = v})
IsAscending(s) == \A i \in 1..(Len(s) - 1) : s[i] <= s[i + 1]
IsStrictlyAscending(s) == \A i \in 1..(Len(s) - 1) : s[i] < s[i + 1]
Min(a, b) == IF a <= b THEN a ELSE b
Greatest(S) == CHOOSE m \in S : \A v \in S : v <= m
Constructed == pc # "new"
Returned == pc \in {"done", "error"}
TrainingPcs == {"train", "while_state", "collect", "on_experiences",
                "exploration_step"}

\* C1: LocalLearner built with an integer eval_schedule = k > 0 has as its
\* schedule the multiples of k in [1, num_episodes] in ascending order, with
\* num_episodes appended when it is not the last of them; the schedule is
\* strictly ascending and num_episodes occurs in it once, as the last element.
C1_IntervalSchedule ==
    (Constructed /\ variant = "LocalLearner" /\ arg_eval_schedule.type = "int") =>
        LET k == arg_eval_schedule.k
            multiples == {m \in 1..num_episodes : m % k = 0}
            expected == multiples \cup {num_episodes}
        IN  /\ Range(eval_schedule) = expected
            /\ Len(eval_schedule) = Cardinality(expected)
            /\ IsStrictlyAscending(eval_schedule)
            /\ Last(eval_schedule) = num_episodes
            /\ Count(num_episodes, eval_schedule) = 1
            /\ Range(Front(eval_schedule)) \in {multiples, multiples \ {num_episodes}}

C1_Witness ==
    /\ pc = "constructed"
    /\ variant = "LocalLearner"
    /\ arg_eval_schedule = IntArg(2)
    /\ num_episodes = 3
    /\ eval_schedule = <<2, 3>>

\* C2: with eval_schedule = None the schedule is exactly [num_episodes], in
\* LocalLearner and in Learner.
C2_NoneSchedule ==
    (Constructed /\ arg_eval_schedule.type = "None") =>
        eval_schedule = <<num_episodes>>

\* C3: for an explicit list, LocalLearner's schedule is the list sorted
\* ascending with duplicates kept, and num_episodes is appended exactly when
\* the list is empty or its greatest element differs from num_episodes; a
\* list already sorted and ending in num_episodes is returned unchanged.
C3_ListNormalized ==
    LET l == arg_eval_schedule.list
        s == eval_schedule
        appended == l = <<>> \/ Greatest(Range(l)) # num_episodes
        body == IF appended THEN Front(s) ELSE s
    IN  /\ Len(s) = Len(l) + (IF appended THEN 1 ELSE 0)
        /\ appended => Last(s) = num_episodes
        /\ IsAscending(body)
        /\ \A v \in Range(l) \cup Range(body) : Count(v, body) = Count(v, l)
        /\ (l # <<>> /\ IsAscending(l) /\ Last(l) = num_episodes) => s = l

C4_ScheduleInvariant ==
    Constructed =>
        /\ eval_schedule # <<>>
        /\ IsStrictlyAscending(eval_schedule)
        /\ Last(eval_schedule) = num_episodes

\* C5: a run() that the early stopper does not end evaluates the policies
\* after the last training episode, before it returns.
C5_FinalEvaluation ==
    (Returned /\ ~stopped /\ raised \in {"none", "IndexError"}) =>
        last_eval_ep = num_episodes

\* C6: in a full LocalLearner.run() the number of evaluations equals the
\* length of the schedule.
C6_EvaluationCount ==
    (variant = "LocalLearner" /\ pc = "done" /\ ~stopped) =>
        n_evaluate = Len(eval_schedule)

\* C7: once stop() has returned True after the evaluation at episode e, run()
\* has returned: no episode after e is trained, and no train, collect,
\* env.step, on_experiences or evaluate call follows.
C7_NoTrainingAfterStop ==
    stopped =>
        /\ pc = "done"
        /\ ep = last_eval_ep
        /\ after_stop \cap {"train", "collect", "env.step", "on_experiences",
                            "evaluate"} = {}

C7_Witness ==
    /\ stopped
    /\ pc = "done"
    /\ ep < num_episodes

\* C8: once stop() has returned True, push is not called again in that run,
\* also when an evaluation of Learner has metrics left to push.
C8_NoPushAfterStop ==
    "push" \notin after_stop

C8_Witness ==
    /\ stopped
    /\ variant = "Learner"
    /\ pending_metrics # {}

\* C9: in LocalLearner every exploration scheme has been stepped once per
\* completed training episode: ep - 1 times while episode ep is being trained
\* (whatever its number of segments and steps), ep times from the end of its
\* training on, evaluation included (a run that env.step ended with an error
\* was training episode ep).
C9_ExplorationStepPerEpisode ==
    (variant = "LocalLearner") =>
        \A x \in exploration_dict :
            exploration_steps[x] =
                IF pc \in TrainingPcs \/ raised = "env.step" THEN ep - 1 ELSE ep

C9_Witness ==
    /\ variant = "LocalLearner"
    /\ exploration_dict # {}
    /\ pc = "eval_while"
    /\ eval_left > 0
    /\ ep = 2
    /\ \A x \in exploration_dict : exploration_steps[x] = 2

\* C10: one _collect with budget num_steps = n > 0 on an environment with
\* r >= 1 steps left makes min(n, r) env.step calls and then one
\* get_experiences call; with num_steps = -1 it makes r steps.
C10_CollectStepCount ==
    /\ pc = "collect" => collect_harvests = 0
    /\ pc = "on_experiences" =>
          /\ collect_r >= 1
          /\ collect_harvests = 1
          /\ collect_steps = IF arg_num_steps = -1 THEN collect_r
                             ELSE Min(arg_num_steps, collect_r)

C10_Witness ==
    /\ pc = "on_experiences"
    /\ arg_num_steps = 2
    /\ collect_r = 3
    /\ collect_steps = 2
    /\ collect_harvests = 1

InvalidNumSteps == arg_num_steps = 0 \/ arg_num_steps < -1
UnregisteredPolicy ==
    \E a \in DOMAIN agent2policy : agent2policy[a] \notin policies
UnregisteredExploration ==
    \E a \in DOMAIN agent2exploration :
        agent2exploration[a] \notin exploration_dict
NothingCalled ==
    /\ ep = 0
    /\ events = <<>>
    /\ last_step = NoStep
    /\ n_evaluate = 0

\* C11: configuration errors are raised by LocalLearner.__init__ and never
\* by run(): construction fails, before any environment or policy call, when
\* num_steps is 0 or less than -1, when an agent is mapped to a policy id
\* that no policy has, or when an agent is mapped to an exploration id that
\* no exploration scheme has.
C11_ConfigErrorsAtConstruction ==
    (variant = "LocalLearner" /\ pc # "new") =>
        /\ (InvalidNumSteps \/ UnregisteredPolicy \/ UnregisteredExploration)
              => (pc = "error" /\ raised \in {"ValueError", "KeyError"}
                  /\ NothingCalled)
        /\ raised \in {"ValueError", "KeyError"} => NothingCalled

\* C12: when Learner.run() returns normally, after the last episode or on a
\* True from the early stopper, exit() has been called on every manager that
\* has an exit method.
C12_ExitHooksOnCompletion ==
    (variant = "Learner" /\ pc = "done") => exits = exit_hooks

\* the events of a LocalLearner.run() over episodes e..n that no early
\* stopper and no failure ends, from cursor idx on schedule sched
RECURSIVE LocalLearner_run_events(_, _, _, _)
LocalLearner_run_events(e, n, idx, sched) ==
    IF e > n THEN <<>>
    ELSE IF idx < Len(sched) /\ e = sched[idx + 1]
    THEN <<[type |-> "train", ep |-> e], [type |-> "evaluate", ep |-> e]>>
             \o LocalLearner_run_events(e + 1, n, idx + 1, sched)
    ELSE <<[type |-> "train", ep |-> e]>>
             \o LocalLearner_run_events(e + 1, n, idx, sched)

\* LocalLearner_run_events is what the actions of LocalLearner produce
LocalLearner_run_events_agree ==
    (variant = "LocalLearner" /\ pc = "done" /\ ~stopped) =>
        events = LocalLearner_run_events(1, num_episodes, 0, eval_schedule)

\* C13: a Learner.run() that neither the early stopper nor a failing manager
\* ends produces the train(ep) / evaluate(ep) events of the LocalLearner.run()
\* with the same num_episodes and eval_schedule argument, and returns as it
\* does.
C13_SameSequencing ==
    (variant = "Learner" /\ Returned /\ ~stopped
        /\ raised \in {"none", "IndexError"}) =>
        /\ raised = "none"
        /\ events = LocalLearner_run_events(
                        1, num_episodes, 0,
                        LocalLearner_eval_schedule(num_episodes, arg_eval_schedule))

LearnerTrainingPcs == {"train", "while_not_complete", "get_state",
                       "reset_update_status", "version", "rollout_collect",
                       "manager_on_experiences", "end_of_episode"}
\* episode ep is being trained (a failure during training included)
InTraining ==
    \/ pc \in (IF variant = "LocalLearner" THEN TrainingPcs ELSE LearnerTrainingPcs)
    \/ raised \in {"env.step", "collect", "on_experiences"}
\* the evaluation of episode ep has started and is followed up
InEvaluation ==
    \/ pc \in {"eval_while", "for_env_metric", "stop"}
    \/ raised \in {"eval_env.step", "evaluate"}
TrainEvents == SelectSeq(events, LAMBDA v : v.type = "train")
EvaluateEvents == SelectSeq(events, LAMBDA v : v.type = "evaluate")

\* C14: in both variants the training episodes complete in the order 1, 2,
\* ...; an evaluation of episode e starts only right after the training of e
\* has completed, before the training of e + 1 starts, at most once per
\* episode; the j-th evaluation is that of the j-th schedule entry and the
\* evaluated episodes are strictly increasing; the schedule cursor equals
\* the number of evaluations started (between the cursor's increment and the
\* evaluation call that follows it in the same branch: one more).
C14_EvaluationOrder ==
    /\ \A i \in 1..Len(TrainEvents) : TrainEvents[i].ep = i
    /\ \A i \in 1..Len(events) :
          events[i].type = "evaluate" =>
             /\ i > 1
             /\ events[i - 1] = [type |-> "train", ep |-> events[i].ep]
    /\ Len(EvaluateEvents) = n_evaluate
    /\ \A j \in 1..Len(EvaluateEvents) :
          /\ j <= Len(eval_schedule)
          /\ EvaluateEvents[j].ep = eval_schedule[j]
    /\ IsStrictlyAscending([j \in 1..Len(EvaluateEvents) |-> EvaluateEvents[j].ep])
    /\ InTraining =>
          /\ Len(TrainEvents) = ep - 1
          /\ events # <<>> => Last(events).ep = ep - 1
    /\ InEvaluation => Last(events) = [type |-> "evaluate", ep |-> ep]
    /\ eval_point_index = n_evaluate + (IF pc = "evaluate" THEN 1 ELSE 0)

C14_Witness ==
    /\ variant = "Learner"
    /\ pc = "rollout_collect"
    /\ ep = 3
    /\ n_evaluate = 2
    /\ eval_point_index = 2
    /\ events = <<[type |-> "train", ep |-> 1], [type |-> "evaluate", ep |-> 1],
                  [type |-> "train", ep |-> 2], [type |-> "evaluate", ep |-> 2]>>

\* the manager calls of one segment of Learner._train, in order
SegmentCalls == <<"get_state", "reset_update_status", "version", "collect",
                  "on_experiences">>

\* C15: the manager calls of one Learner._train(ep) are: one
\* rollout_manager.reset(), then for the segments 1, 2, ... in turn
\* get_state(), reset_update_status(), the read of version,
\* collect(ep, segment, state, version) with the state and the version just
\* read, and on_experiences(); then, once, end_of_episode(ep) as the last
\* call, at a segment boundary.
C15_TrainProtocol ==
    variant = "Learner" =>
        /\ pc \in LearnerTrainingPcs \ {"train"} => train_log # <<>>
        /\ train_log # <<>> => train_log[1] = ManagerCall("reset", ep, 0, 0, 0)
        /\ \A i \in 2..Len(train_log) :
              LET c == train_log[i]
                  seg == ((i - 2) \div Len(SegmentCalls)) + 1
                  k == ((i - 2) % Len(SegmentCalls)) + 1
              IN  /\ \/ c.call = SegmentCalls[k] /\ c.ep = ep /\ c.segment = seg
                     \/ /\ i = Len(train_log)
                        /\ k = 1
                        /\ c = ManagerCall("end_of_episode", ep, 0, 0, 0)
                  /\ c.call = "collect" =>
                        /\ c.state = train_log[i - 3].state
                        /\ c.version = train_log[i - 1].version
        /\ pc = "check_schedule" => Last(train_log).call = "end_of_episode"

C15_Witness ==
    /\ variant = "Learner"
    /\ pc = "check_schedule"
    /\ Len(train_log) = 12
    /\ train_log[5] = ManagerCall("collect", ep, 1, 0, 0)
    /\ train_log[10] = ManagerCall("collect", ep, 2, 1, 1)

\* the number of on_experiences calls that policy p got in the current segment
UpdatesOf(p) == Cardinality({a \in DOMAIN dispatched : dispatched[a] = p})

\* C16: in LocalLearner a policy gets at most one on_experiences call per
\* segment, also when several agents are routed to it, and no on_experiences
\* call is made while the steps of a segment are being taken.
C16_OneUpdatePerPolicy ==
    variant = "LocalLearner" =>
        /\ \A p \in policies : UpdatesOf(p) <= 1
        /\ pc \in {"collect", "on_experiences"} => dispatched = EmptyMap

\* the calls that _evaluate makes
EvaluateCalls == {"eval_env.reset", "eval_env.start", "choose_action",
                  "eval_env.step"}

\* C17: during LocalLearner._evaluate the only calls are reset, start and
\* step of eval_env (env itself when no eval_env was given) and choose_action
\* of the routed policies; the actions stepped are raw, no experience is
\* harvested or dispatched, and a separate training environment is left as
\* the training left it.
C17_EvaluationIsRaw ==
    (variant = "LocalLearner" /\ pc = "eval_while") =>
        /\ eval_calls \subseteq EvaluateCalls
        /\ last_step # NoStep =>
              /\ last_step.env = EvalEnv
              /\ DOMAIN last_step.action = last_step.state
              /\ \A a \in last_step.state :
                    /\ last_step.action[a].exploration = "none"
                    /\ last_step.action[a].policy = agent2policy[a]
        /\ eval_env_given => (env_left = 0 /\ env_agents = {})
        /\ experiences = {}
        /\ dispatched = EmptyMap
        /\ collect_harvests = 0

C17_Witness ==
    /\ variant = "LocalLearner"
    /\ pc = "eval_while"
    /\ ~eval_env_given
    /\ exploration_dict # {}
    /\ agent2exploration = [a \in {"agent_0"} |-> "explore_a"]
    /\ last_step.env = "env"
    /\ last_step.state = Agents
    /\ eval_calls = EvaluateCalls

\* C18: the action dict of every step of _collect has the agents of the
\* env.state it was chosen on as its keys; the action of agent a comes from
\* one choose_action call of the policy agent2policy[a], transformed by the
\* exploration scheme a is mapped to when there is one, raw otherwise; the
\* experiences of agent a go to on_experiences of agent2policy[a] only.
C18_ActionRouting ==
    variant = "LocalLearner" =>
        /\ (pc = "collect" /\ last_step # NoStep) =>
              /\ last_step.env = "env"
              /\ DOMAIN last_step.action = last_step.state
              /\ \A a \in last_step.state :
                    /\ last_step.action[a].policy = agent2policy[a]
                    /\ last_step.action[a].choose_calls = 1
                    /\ last_step.action[a].exploration =
                          IF /\ a \in DOMAIN agent2exploration
                             /\ agent2exploration[a] \in exploration_dict
                          THEN agent2exploration[a]
                          ELSE "none"
        /\ \A a \in DOMAIN dispatched : dispatched[a] = agent2policy[a]
        /\ (pc = "while_state" /\ segment > 0) => DOMAIN dispatched = experiences

C18_Witness ==
    /\ variant = "LocalLearner"
    /\ pc = "collect"
    /\ agent2policy = [a \in Agents |-> IF a = "agent_0" THEN "policy_0" ELSE "policy_1"]
    /\ last_step.state = Agents
    /\ last_step.action["agent_0"].exploration = "explore_a"
    /\ last_step.action["agent_1"].exploration = "none"

\* C19: a failing collaborator call (env.step or eval_env.step in
\* LocalLearner; collect, on_experiences or evaluate in Learner) ends run()
\* with that error, and nothing is done after a failure: no retry, no later
\* segment, update, exploration step, evaluation or push.
C19_FailurePropagates ==
    /\ [](raised # "none" => pc = "error")
    /\ [][raised = "none"]_vars

C19_Witness ==
    /\ variant = "Learner"
    /\ raised = "on_experiences"
    /\ pc = "error"
    /\ ep = 2
    /\ segment = 2

\* C20: in LocalLearner.run(), for every eval_schedule argument, the cursor
\* is a valid index of the schedule whenever the schedule is read, so run()
\* never ends with IndexError; the cursor reaches the length of the schedule
\* only in the iteration of the last episode.
C20_CursorInRange ==
    (variant = "LocalLearner" /\ Constructed) =>
        /\ eval_point_index <= Len(eval_schedule)
        /\ pc = "check_schedule" => eval_point_index < Len(eval_schedule)
        /\ raised # "IndexError"
        /\ eval_point_index = Len(eval_schedule) => ep = num_episodes

C20_Witness ==
    /\ variant = "LocalLearner"
    /\ pc = "check_schedule"
    /\ num_episodes = 3
    /\ ep = 3
    /\ arg_eval_schedule = ListArg(<<4, 2>>)
    /\ eval_schedule = <<2, 4, 3>>
    /\ eval_point_index = 1

\* LocalLearner alone, with the inputs of Init; a list argument is drawn in
\* ascending order (__init__ sorts it before run() reads it)
InitLocal ==
    /\ Init
    /\ variant = "LocalLearner"
    /\ arg_eval_schedule.type = "list" => IsAscending(arg_eval_schedule.list)

\* run() is sequential code: the statement it has reached is executed
SpecTermination == InitLocal /\ [][NextLocal]_vars /\ WF_vars(NextLocal)

\* ceil(t / n) for n > 0
CeilDiv(t, n) == (t + n - 1) \div n
\* the segments of a training episode of t steps under the num_steps
\* argument n
ExpectedSegments(t, n) ==
    IF t = 0 THEN 0 ELSE IF n = -1 THEN 1 ELSE CeilDiv(t, n)
C21_Bounded ==
    /\ pc = "on_experiences" => collect_steps >= 1
    /\ pc \in TrainingPcs =>
          segment <= ExpectedSegments(episode_len, arg_num_steps)
    /\ pc = "exploration_step" =>
          /\ env_left = 0
          /\ segment = ExpectedSegments(episode_len, arg_num_steps)
          /\ episode_len = 0 => (segment = 0 /\ experiences = {})
    /\ ep <= num_episodes
    /\ Len(TrainEvents) <= num_episodes
    /\ n_evaluate <= num_episodes

\* C21: LocalLearner.run() on environments whose episodes end after finitely
\* many steps returns (or ends with the error of a failed call); every
\* segment entered makes at least one env.step, a training episode of T steps
\* under budget n takes ceil(T / n) segments (one under num_steps = -1, none
\* and no harvest when T = 0), and the run trains at most num_episodes
\* episodes and evaluates at most num_episodes times.
C21_RunTerminates ==
    /\ []C21_Bounded
    /\ <>Returned

C21_Witness ==
    /\ variant = "LocalLearner"
    /\ pc = "exploration_step"
    /\ num_episodes = 3
    /\ ep = 3
    /\ n_evaluate = 2
    /\ arg_num_steps = 2
    /\ episode_len = 3
    /\ segment = 2

====
